---- MODULE Spec2Model ----
(***************************************************************************)
(* Model of blob/parser.py (class Parser): repository and module loading,  *)
(* option merging, availability gating and dependency resolution.          *)
(*                                                                         *)
(* Strings that the code formats or splits are modelled as sequences of    *)
(* tokens: a token is either the separator ":" or a colon-free piece of    *)
(* text (a repository, module or option name).  "%s:%s" % (a, b) is        *)
(* <<a, ":", b>> and str.split(':') is Split below.                        *)
(***************************************************************************)
EXTENDS Integers, Sequences, FiniteSets, TLC

VARIABLES
    repositories,   \* Parser.repositories: insertion-ordered dict, as a sequence of Repository objects
    modules,        \* Parser.modules: qualified name -> Module object
    environment,    \* Parser.environment.modules: qualified name -> Module object
    nextId,         \* identity of the next Repository object constructed
    stage,          \* the stage of the pipeline (main, lines 291-298): "load", "merged" or "gated"
    pc,             \* "idle", or "loop" inside resolve_dependencies' while loop
    selected,       \* resolve_dependencies: selected_modules
    current,        \* resolve_dependencies: current
    call            \* the last call made on the Parser: its name, argument and outcome

vars == <<repositories, modules, environment, nextId, stage, pc, selected, current, call>>

\* ------------------------------------------------------------------ bounds

MaxParse == 3
MaxOverrides == 2
MaxRequest == 2
MaxEdges == 2

\* No list of selected modules grows past this in the model.
SelectedCap == MaxRequest + 8

\* ------------------------------------------------------------------ values

None == "None"
NoError == "NoError"
BlobException == "BlobException"
TypeError == "TypeError"
KeyError == "KeyError"

RequiredFunctions == {"init", "prepare", "build"}

\* "%s:%s" % (a, b)
QualifiedName(a, b) == <<a, ":", b>>

RECURSIVE SplitFrom(_, _, _, _)
SplitFrom(s, i, part, parts) ==
    IF i > Len(s) THEN Append(parts, part)
    ELSE IF s[i] = ":" THEN SplitFrom(s, i + 1, <<>>, Append(parts, part))
    ELSE SplitFrom(s, i + 1, Append(part, s[i]), parts)

\* s.split(':')
Split(s) == SplitFrom(s, 1, <<>>, <<>>)

\* d[k] = v on a dict held as a function
Put(d, k, v) == [x \in (DOMAIN d) \cup {k} |-> IF x = k THEN v ELSE d[x]]

EmptyDict == [x \in {} |-> None]

RepositoryNames == {repositories[i].name : i \in 1..Len(repositories)}

\* ---------------------------------------------------- definition units

\* What executing a module file yields: the global functions it defines and
\* what its init(module) and prepare(module, options) callbacks do.
ModuleFile(file, functions, name, dependencies, available) ==
    [file |-> file, functions |-> functions, name |-> name,
     dependencies |-> dependencies, available |-> available]

\* What executing a repository file yields: whether it defines prepare(repo)
\* and what that callback sets, declares and registers.
RepositoryFile(file, prepare, name, options, mods) ==
    [file |-> file, prepare |-> prepare, name |-> name, options |-> options, modules |-> mods]

Option(name, value) == [name |-> name, value |-> value]

\* The pipeline is single-pass: repositories are loaded, then options are
\* merged once, then modules are gated once, then requests are resolved.
\* The actions carry this order in their guards on stage.

\* ------------------------------------------------------ parse_repository

\* Parser._parse_module: the Module object, or the error raised.
ParseModule(repoId, repoName, mf) ==
    IF ~(RequiredFunctions \subseteq mf.functions)
    THEN [error |-> BlobException, module |-> None]
    ELSE IF mf.name = None
    THEN [error |-> BlobException, module |-> None]
    ELSE [error |-> NoError,
          module |-> [repository |-> repoId, repositoryName |-> repoName, file |-> mf.file,
                      name |-> mf.name, dependencies |-> mf.dependencies,
                      available |-> mf.available]]

\* The loop of parse_repository over repo.modules: every module parsed is
\* stored in the repository and in Parser.modules at once; the first module
\* that fails to parse ends the loop with its error.
RECURSIVE ParseModules(_, _, _, _, _)
ParseModules(repoId, rf, i, loaded, index) ==
    IF i > Len(rf.modules) THEN [error |-> NoError, loaded |-> loaded, index |-> index]
    ELSE LET r == ParseModule(repoId, rf.name, rf.modules[i]) IN
         IF r.error # NoError
         THEN [error |-> r.error, loaded |-> loaded, index |-> index]
         ELSE ParseModules(repoId, rf, i + 1, Append(loaded, r.module),
                           Put(index, QualifiedName(rf.name, r.module.name), r.module))

\* Lines 67-68 without the uniqueness test: every loaded repository is stored.
RegisterUnchecked(repos, index, repo) ==
    [error |-> NoError, message |-> None, repositories |-> Append(repos, repo), modules |-> index]

\* Lines 67-71: the repository is stored unless its name is taken.
Register(repos, index, repo) ==
    IF \E i \in 1..Len(repos) : repos[i].name = repo.name
    THEN [error |-> BlobException, message |-> "Repository name is ambiguous",
          repositories |-> repos, modules |-> index]
    ELSE [error |-> NoError, message |-> None,
          repositories |-> Append(repos, repo), modules |-> index]

\* The outcome of Parser.parse_repository(repofile) on the two registries.
ParseRepositoryResult(repos, index, id, rf) ==
    IF ~rf.prepare \/ rf.name = None
    THEN [error |-> BlobException, message |-> "Invalid repository configuration file",
          repositories |-> repos, modules |-> index]
    ELSE LET r == ParseModules(id, rf, 1, <<>>, index) IN
         IF r.error # NoError
         THEN [error |-> r.error, message |-> "While parsing",
               repositories |-> repos, modules |-> r.index]
         ELSE Register(repos, r.index,
                       [id |-> id, name |-> rf.name, options |-> rf.options,
                        modules |-> r.loaded])

parse_repository(rf) ==
    /\ pc = "idle"
    /\ stage = "load"
    /\ nextId <= MaxParse
    /\ LET r == ParseRepositoryResult(repositories, modules, nextId, rf) IN
       /\ repositories' = r.repositories
       /\ modules' = r.modules
       /\ call' = [op |-> "parse_repository", arg |-> rf, error |-> r.error,
                   message |-> r.message, about |-> None]
    /\ nextId' = nextId + 1
    /\ UNCHANGED <<environment, stage, pc, selected, current>>

\* ------------------------------------------------ merge_repository_options

\* repo_options_by_full_name: an insertion-ordered dict, as the sequence of
\* its entries; an Option object is referred to by its place <<i, j>>.
RECURSIVE OptionsFrom(_, _, _)
OptionsFrom(repos, i, j) ==
    IF i > Len(repos) THEN <<>>
    ELSE IF j > Len(repos[i].options) THEN OptionsFrom(repos, i + 1, 1)
    ELSE <<[name |-> QualifiedName(repos[i].name, repos[i].options[j].name),
            option_name |-> repos[i].options[j].name,
            ref |-> <<i, j>>]>> \o OptionsFrom(repos, i, j + 1)

RepoOptionsByFullName(repos) == OptionsFrom(repos, 1, 1)

IsOptionNamed(e, option_name) == <<e.option_name>> = option_name

\* repo_options_by_option_name[option_name]: the list of the Options
\* declared under that bare name (no entry when the list is empty).
RepoOptionsByOptionName(repos, option_name) ==
    SelectSeq(RepoOptionsByFullName(repos), LAMBDA e : IsOptionNamed(e, option_name))

ValueOf(repos, ref) == repos[ref[1]].options[ref[2]].value

RECURSIVE SetValues(_, _, _, _)
SetValues(repos, entries, k, value) ==
    IF k > Len(entries) THEN repos
    ELSE SetValues([repos EXCEPT ![entries[k].ref[1]].options[entries[k].ref[2]].value = value],
                   entries, k + 1, value)

\* Line 182: repo_options_by_full_name[name].value = value, where name is the
\* list config_name.split(':') of line 173.  A list is unhashable, so the
\* subscription raises TypeError before any key is compared.
QualifiedOverride(repos, config_name, name, value) ==
    [error |-> TypeError, message |-> "unhashable type: 'list'", about |-> config_name,
     repositories |-> repos]

\* Lines 179-180: every Option of the bare-name list gets the value.
WildcardOverride(repos, option_name, value) ==
    LET list == RepoOptionsByOptionName(repos, option_name) IN
    IF list = <<>>
    THEN [error |-> KeyError, message |-> None, about |-> option_name, repositories |-> repos]
    ELSE [error |-> NoError, message |-> None, about |-> None,
          repositories |-> SetValues(repos, list, 1, value)]

\* Lines 173-187 accepting every key that has not two parts.
ApplyOverrideLenient(repos, config_name, value) ==
    LET name == Split(config_name) IN
    IF Len(name) = 2
    THEN IF name[1] = <<>>
         THEN WildcardOverride(repos, name[2], value)
         ELSE QualifiedOverride(repos, config_name, name, value)
    ELSE [error |-> NoError, message |-> None, about |-> None, repositories |-> repos]

\* Lines 173-187: one entry of config_options.
ApplyOverride(repos, config_name, value) ==
    LET name == Split(config_name) IN
    IF Len(name) = 2
    THEN IF name[1] = <<>>
         THEN WildcardOverride(repos, name[2], value)
         ELSE QualifiedOverride(repos, config_name, name, value)
    ELSE IF Len(name) = 3
    THEN [error |-> NoError, message |-> None, about |-> None, repositories |-> repos]
    ELSE [error |-> BlobException, message |-> "Invalid option", about |-> config_name,
          repositories |-> repos]

\* Lines 172-187: the entries in order; the first error ends the loop, and
\* the values already assigned stay assigned.
RECURSIVE ApplyOverrides(_, _, _)
ApplyOverrides(repos, config_options, k) ==
    IF k > Len(config_options)
    THEN [error |-> NoError, message |-> None, about |-> None, repositories |-> repos]
    ELSE LET r == ApplyOverride(repos, config_options[k].name, config_options[k].value) IN
         IF r.error # NoError THEN r
         ELSE ApplyOverrides(r.repositories, config_options, k + 1)

\* Lines 190-193: the first Option without a value is reported by its name.
CheckValues(repos) ==
    LET unset == SelectSeq(RepoOptionsByFullName(repos),
                           LAMBDA e : ValueOf(repos, e.ref) = None) IN
    IF unset # <<>>
    THEN [error |-> BlobException, message |-> "Unknown value for option",
          about |-> unset[1].option_name, repositories |-> repos]
    ELSE [error |-> NoError, message |-> None, about |-> None, repositories |-> repos]

MergeResult(repos, config_options) ==
    LET r == ApplyOverrides(repos, config_options, 1) IN
    IF r.error # NoError THEN r ELSE CheckValues(r.repositories)

merge_repository_options(config_options) ==
    /\ pc = "idle"
    /\ stage = "load"
    /\ LET r == MergeResult(repositories, config_options) IN
       /\ repositories' = r.repositories
       /\ call' = [op |-> "merge_repository_options", arg |-> config_options,
                   error |-> r.error, message |-> r.message, about |-> r.about]
    /\ stage' = "merged"
    /\ UNCHANGED <<modules, environment, nextId, pc, selected, current>>

\* ---------------------------------------------------------- prepare_modules

\* Lines 209-211 without the test of line 209: every module is registered.
GateAll(env, m) == Put(env, QualifiedName(m.repositoryName, m.name), m)

\* Lines 207-211 for one module: m.functions["prepare"] decides whether the
\* module enters the Environment under '<repository>:<module>'.
Gate(env, m) ==
    IF m.available THEN Put(env, QualifiedName(m.repositoryName, m.name), m) ELSE env

\* Lines 205-211: repositories in order, the modules of each in order.
RECURSIVE PrepareFrom(_, _, _, _)
PrepareFrom(env, repos, i, j) ==
    IF i > Len(repos) THEN env
    ELSE IF j > Len(repos[i].modules) THEN PrepareFrom(env, repos, i + 1, 1)
    ELSE PrepareFrom(Gate(env, repos[i].modules[j]), repos, i, j + 1)

prepare_modules ==
    /\ pc = "idle"
    /\ stage # "gated"
    /\ environment' = PrepareFrom(environment, repositories, 1, 1)
    /\ stage' = "gated"
    /\ call' = [op |-> "prepare_modules", arg |-> None, error |-> NoError,
                message |-> None, about |-> None]
    /\ UNCHANGED <<repositories, modules, nextId, pc, selected, current>>

\* ----------------------------------------------------- resolve_dependencies

\* Environment.get_module(name): the module registered under the name; a
\* name without an entry is a lookup error.
GetModule(env, name) ==
    IF name \in DOMAIN env
    THEN [error |-> NoError, module |-> env[name]]
    ELSE [error |-> KeyError, module |-> None]

\* x in list (a Module compares by identity: one object per repository
\* object and module file)
InList(x, list) == \E i \in 1..Len(list) : list[i] = x

\* Lines 218-220: the requested names resolved in order.
RECURSIVE ResolveRequested(_, _, _, _)
ResolveRequested(env, requested_modules, i, acc) ==
    IF i > Len(requested_modules) THEN [error |-> NoError, about |-> None, modules |-> acc]
    ELSE LET r == GetModule(env, requested_modules[i]) IN
         IF r.error # NoError
         THEN [error |-> r.error, about |-> requested_modules[i], modules |-> <<>>]
         ELSE ResolveRequested(env, requested_modules, i + 1, Append(acc, r.module))

\* Lines 229-230 testing only the modules queued in this round.
IsNewThisRoundOnly(dependency, selected_modules, additional) ==
    ~InList(dependency, additional)

\* Lines 229-230 with the test on selected_modules inverted.
IsNewInverted(dependency, selected_modules, additional) ==
    InList(dependency, selected_modules) /\ ~InList(dependency, additional)

\* Lines 229-230.
IsNew(dependency, selected_modules, additional) ==
    ~InList(dependency, selected_modules) /\ ~InList(dependency, additional)

\* Lines 224-231: one pass over current, dependency j of module i next.
RECURSIVE CollectFrom(_, _, _, _, _, _)
CollectFrom(env, selected_modules, cur, i, j, additional) ==
    IF i > Len(cur) THEN [error |-> NoError, about |-> None, additional |-> additional]
    ELSE IF j > Len(cur[i].dependencies)
    THEN CollectFrom(env, selected_modules, cur, i + 1, 1, additional)
    ELSE LET dependency_name == cur[i].dependencies[j]
             r == GetModule(env, dependency_name) IN
         IF r.error # NoError
         THEN [error |-> r.error, about |-> dependency_name, additional |-> <<>>]
         ELSE CollectFrom(env, selected_modules, cur, i, j + 1,
                          IF IsNew(r.module, selected_modules, additional)
                          THEN Append(additional, r.module) ELSE additional)

\* Lines 217-222: the call up to the head of the while loop.
resolve_dependencies(requested_modules) ==
    /\ pc = "idle"
    /\ stage = "gated"
    /\ LET r == ResolveRequested(environment, requested_modules, 1, <<>>) IN
       /\ selected' = r.modules
       /\ current' = r.modules
       /\ pc' = IF r.error = NoError THEN "loop" ELSE "idle"
       /\ call' = [op |-> "resolve_dependencies", arg |-> requested_modules,
                   error |-> r.error, message |-> None, about |-> r.about]
    /\ UNCHANGED <<repositories, modules, environment, nextId, stage>>

\* Lines 223-237: one round of the while loop; the round that finds nothing
\* new returns selected_modules (line 239).
resolve_round ==
    /\ pc = "loop"
    /\ Len(selected) <= SelectedCap
    /\ LET r == CollectFrom(environment, selected, current, 1, 1, <<>>) IN
       IF r.error # NoError
       THEN /\ pc' = "idle"
            /\ selected' = <<>>
            /\ current' = <<>>
            /\ call' = [call EXCEPT !.error = r.error, !.about = r.about]
       ELSE IF r.additional = <<>>
       THEN /\ pc' = "idle"
            /\ current' = <<>>
            /\ UNCHANGED <<selected, call>>
       ELSE /\ selected' = selected \o r.additional
            /\ current' = r.additional
            /\ UNCHANGED <<pc, call>>
    /\ UNCHANGED <<repositories, modules, environment, nextId, stage>>

\* ------------------------------------------------------------- load inputs

LoadModuleFiles ==
    [u |-> ModuleFile("u.lb", RequiredFunctions, "u", <<>>, TRUE),
     t |-> ModuleFile("t.lb", RequiredFunctions, "t", <<>>, TRUE),
     noname |-> ModuleFile("noname.lb", RequiredFunctions, None, <<>>, TRUE),
     nobuild |-> ModuleFile("nobuild.lb", {"init", "prepare"}, "w", <<>>, TRUE)]

LoadRepositoryFiles ==
    { RepositoryFile("a1", TRUE, "a", <<>>, <<LoadModuleFiles.u, LoadModuleFiles.t>>),
      RepositoryFile("a2", TRUE, "a", <<>>, <<LoadModuleFiles.t>>),
      RepositoryFile("b1", TRUE, "b", <<>>, <<LoadModuleFiles.u>>),
      RepositoryFile("b2", TRUE, "b", <<>>, <<LoadModuleFiles.t, LoadModuleFiles.noname>>),
      RepositoryFile("b3", TRUE, "b", <<>>, <<LoadModuleFiles.u, LoadModuleFiles.nobuild>>),
      RepositoryFile("n1", TRUE, None, <<>>, <<LoadModuleFiles.u>>),
      RepositoryFile("n2", FALSE, None, <<>>, <<>>) }

\* ------------------------------------------------------------ merge inputs

OptionValues == {"v1", "v2"}
Defaults == {None, "d"}

MergeRepositoryFiles ==
    { RepositoryFile("a1", TRUE, "a", <<Option("x", dx), Option("y", dy)>>, <<>>)
        : dx \in Defaults, dy \in Defaults }
    \cup { RepositoryFile("b1", TRUE, "b", <<Option("x", dx)>>, <<>>) : dx \in Defaults }

ConfigNames ==
    { QualifiedName("a", "x"), QualifiedName("a", "y"), QualifiedName("b", "x"),
      <<":", "x">>, <<":", "y">>, <<":", "z">>,
      <<"a", ":", "u", ":", "x">>, <<"x">>, <<"a", ":", "u", ":", "x", ":", "y">> }

\* config_options: a dict, so its keys are distinct; entries in insertion order.
ConfigOptions ==
    { co \in UNION { [1..n -> [name : ConfigNames, value : OptionValues]] : n \in 0..MaxOverrides }
        : \A i, j \in 1..Len(co) : i # j => co[i].name # co[j].name }

\* ---------------------------------------------------------- resolve inputs

ModuleNames == <<"u", "t", "w">>

DependencyNames == {QualifiedName("a", ModuleNames[k]) : k \in 1..Len(ModuleNames)}

DependencyLists == UNION {[1..n -> DependencyNames] : n \in 0..MaxEdges}

\* One repository "a" of two or three modules whose dependency lists hold at
\* most MaxEdges names between them, each module available or not.
ResolveRepositoryFiles ==
    { RepositoryFile("a1", TRUE, "a", <<>>,
                     SubSeq(<<ModuleFile("u.lb", RequiredFunctions, "u", d[1], av[1]),
                              ModuleFile("t.lb", RequiredFunctions, "t", d[2], av[2]),
                              ModuleFile("w.lb", RequiredFunctions, "w", d[3], av[3])>>, 1, n))
        : d \in {dd \in [1..3 -> DependencyLists] : Len(dd[1]) + Len(dd[2]) + Len(dd[3]) <= MaxEdges},
          av \in [1..3 -> BOOLEAN], n \in 2..3 }

Requests == UNION {[1..n -> DependencyNames] : n \in 0..MaxRequest}

\* ------------------------------------------------------------ specification

Init ==
    /\ repositories = <<>>
    /\ modules = EmptyDict
    /\ environment = EmptyDict
    /\ nextId = 1
    /\ stage = "load"
    /\ pc = "idle"
    /\ selected = <<>>
    /\ current = <<>>
    /\ call = [op |-> "init", arg |-> None, error |-> NoError, message |-> None, about |-> None]

Next == \E rf \in LoadRepositoryFiles : parse_repository(rf)

Spec == Init /\ [][Next]_vars

\* The repositories given to the merge stage are loaded without failure.
MergeNext ==
    \/ \E rf \in MergeRepositoryFiles : rf.name \notin RepositoryNames /\ parse_repository(rf)
    \/ \E config_options \in ConfigOptions : merge_repository_options(config_options)

MergeSpec == Init /\ [][MergeNext]_vars

\* The closure is resolved for one repository, loaded into an empty Parser.
ResolveNext ==
    \/ \E rf \in ResolveRepositoryFiles : repositories = <<>> /\ parse_repository(rf)
    \/ prepare_modules
    \/ \E requested_modules \in Requests : resolve_dependencies(requested_modules)
    \/ resolve_round

ResolveSpec == Init /\ [][ResolveNext]_vars

\* The while loop runs on once entered: the program is single-threaded.
FairResolveSpec == ResolveSpec /\ WF_vars(resolve_round)

\* ------------------------------------------------------------------ claims

ParseStep == call'.op = "parse_repository" /\ nextId' = nextId + 1

MergeStep == call'.op = "merge_repository_options" /\ stage = "load" /\ stage' = "merged"

Merged == call.op = "merge_repository_options"

\* The call went through the whole of its override loop (lines 172-187).
LoopCompleted(c) ==
    \/ c.error = NoError
    \/ c.error = BlobException /\ c.message = "Unknown value for option"

ResolveDone == call.op = "resolve_dependencies" /\ pc = "idle"

ResolveReturned == ResolveDone /\ call.error = NoError

OptionPlaces(repos) ==
    UNION {{<<i, j>> : j \in 1..Len(repos[i].options)} : i \in 1..Len(repos)}

FullName(repos, pl) == QualifiedName(repos[pl[1]].name, repos[pl[1]].options[pl[2]].name)

BareName(repos, pl) == repos[pl[1]].options[pl[2]].name

NumParts(name) == 1 + Cardinality({i \in 1..Len(name) : name[i] = ":"})

\* A repository file that defines prepare(), sets a name, and whose module
\* files each define the three functions and set a name.
Loadable(rf) ==
    /\ rf.prepare
    /\ rf.name # None
    /\ \A k \in 1..Len(rf.modules) :
          RequiredFunctions \subseteq rf.modules[k].functions /\ rf.modules[k].name # None

NamesUnique(repos) ==
    \A i, j \in 1..Len(repos) : repos[i].name = repos[j].name => i = j

\* Every entry 'repo:module' of Parser.modules is a module of the repository
\* registered under 'repo'.
ModuleIndexOwned(repos, index) ==
    \A k \in DOMAIN index :
        \E i \in 1..Len(repos) :
            /\ repos[i].id = index[k].repository
            /\ k = QualifiedName(repos[i].name, index[k].name)

\* C1: with an override mapping whose keys are exactly the qualified names
\* 'repo:option' of all declared Options, merge_repository_options raises no
\* error and leaves every Option with the value given for its own key.
C1_QualifiedOverridesApplied ==
    ( /\ Merged
      /\ {call.arg[k].name : k \in 1..Len(call.arg)}
            = {FullName(repositories, pl) : pl \in OptionPlaces(repositories)} )
    => /\ call.error = NoError
       /\ \A pl \in OptionPlaces(repositories) : \A k \in 1..Len(call.arg) :
             call.arg[k].name = FullName(repositories, pl)
                => ValueOf(repositories, pl) = call.arg[k].value

\* An override entry applies to an Option: it carries the Option's qualified
\* name, or the wildcard of its bare name.
AppliesTo(repos, entry, pl) ==
    \/ entry.name = FullName(repos, pl)
    \/ entry.name = <<":", BareName(repos, pl)>>

Uncovered(repos, config_options) ==
    {pl \in OptionPlaces(repos) :
        /\ ValueOf(repos, pl) = None
        /\ \A k \in 1..Len(config_options) : ~AppliesTo(repos, config_options[k], pl)}

\* Every key is the qualified name of a declared Option, the wildcard of a
\* declared bare name, or a three-part key.
WellFormed(repos, config_options) ==
    \A k \in 1..Len(config_options) :
        \/ NumParts(config_options[k].name) = 3
        \/ \E pl \in OptionPlaces(repos) : AppliesTo(repos, config_options[k], pl)

\* C5: if an Option has no default and no override that applies to it,
\* merge_repository_options fails with a BlobException that names such an
\* option; and whenever it returns normally every Option has a value.
\* (Stated for the override mappings whose keys are all well formed.)
C5_OptionCompleteness ==
    [][MergeStep /\ WellFormed(repositories, call'.arg) =>
         /\ Uncovered(repositories, call'.arg) # {}
               => /\ call'.error = BlobException
                  /\ call'.message = "Unknown value for option"
                  /\ \E pl \in Uncovered(repositories, call'.arg) :
                        call'.about = BareName(repositories, pl)
         /\ call'.error = NoError
               => \A pl \in OptionPlaces(repositories') : ValueOf(repositories', pl) # None
      ]_vars

\* C6: after merge_repository_options with a wildcard key ':<option>', every
\* Option of that bare name holds the key's value, in every repository
\* declaring it, and an Option of another bare name is not changed by it.
\* (Stated for the override mappings whose keys are all well formed, and for
\* the Options that no qualified key of the mapping names.)
C6_WildcardOverride ==
    [][MergeStep /\ WellFormed(repositories, call'.arg) =>
         \A pl \in OptionPlaces(repositories) :
             LET ws == {k \in 1..Len(call'.arg) :
                           call'.arg[k].name = <<":", BareName(repositories, pl)>>}
                 qs == {k \in 1..Len(call'.arg) :
                           call'.arg[k].name = FullName(repositories, pl)} IN
             qs = {} =>
                 /\ \A k \in ws : ValueOf(repositories', pl) = call'.arg[k].value
                 /\ ws = {} => ValueOf(repositories', pl) = ValueOf(repositories, pl)
      ]_vars

\* C8 as stated: a mapping whose keys all have a shape other than the
\* two-part one raises no error and leaves every Option's value unchanged.
C8_OtherShapesAccepted ==
    [][MergeStep /\ (\A k \in 1..Len(call'.arg) : NumParts(call'.arg[k].name) # 2) =>
         /\ LoopCompleted(call')
         /\ repositories' = repositories
      ]_vars

FirstNotThreePart(config_options) ==
    LET bad == {k \in 1..Len(config_options) : NumParts(config_options[k].name) # 3} IN
    CHOOSE k \in bad : \A l \in bad : k <= l

\* C8 amended: a three-part key is accepted, raising no error and leaving
\* every Option's value unchanged; a key of one part or of more than three
\* is rejected with a BlobException "Invalid option" naming it, the values
\* still unchanged.
C8_ThreePartAcceptedOthersRejected ==
    [][MergeStep /\ (\A k \in 1..Len(call'.arg) : NumParts(call'.arg[k].name) # 2) =>
         /\ repositories' = repositories
         /\ (\A k \in 1..Len(call'.arg) : NumParts(call'.arg[k].name) = 3)
               => LoopCompleted(call')
         /\ (\E k \in 1..Len(call'.arg) : NumParts(call'.arg[k].name) # 3)
               => /\ call'.error = BlobException
                  /\ call'.message = "Invalid option"
                  /\ call'.about = call'.arg[FirstNotThreePart(call'.arg)].name
      ]_vars

\* Reached: a three-part key went through and the key after it, of one part
\* or of four, was rejected.
C8_Witness ==
    /\ Merged
    /\ Len(call.arg) = 2
    /\ NumParts(call.arg[1].name) = 3
    /\ NumParts(call.arg[2].name) \in {1, 4}
    /\ call.error = BlobException
    /\ call.message = "Invalid option"
    /\ call.about = call.arg[2].name
    /\ repositories # <<>>

\* C7: a parse_repository call naming a registered repository fails with a
\* BlobException and the registry keeps what it held; a call with a new name
\* (of a repository file that loads) succeeds and appends the repository; no
\* name is registered twice.
C7_RepositoryNamesUnique ==
    [][ParseStep =>
         /\ call'.arg.name \in RepositoryNames
               => call'.error = BlobException /\ repositories' = repositories
         /\ (Loadable(call'.arg) /\ call'.arg.name \notin RepositoryNames)
               => /\ call'.error = NoError
                  /\ Len(repositories') = Len(repositories) + 1
                  /\ SubSeq(repositories', 1, Len(repositories)) = repositories
                  /\ repositories'[Len(repositories')].name = call'.arg.name
         /\ NamesUnique(repositories')
      ]_vars

\* Reached: two repositories of distinct names are registered and a third
\* call, of a file that loads but repeats a name, was refused.
C7_Witness ==
    /\ call.op = "parse_repository"
    /\ Loadable(call.arg)
    /\ call.error = BlobException
    /\ call.message = "Repository name is ambiguous"
    /\ Len(repositories) = 2
    /\ \E i \in 1..2 : repositories[i].name = call.arg.name

\* C10: a parse_repository call that fails leaves Parser.repositories and
\* Parser.modules as they were, so every entry of the module index is a
\* module of the repository registered under its repository name.
C10_FailedLoadLeavesRegistries ==
    [][ParseStep =>
         /\ call'.error # NoError => repositories' = repositories /\ modules' = modules
         /\ ModuleIndexOwned(repositories', modules')
      ]_vars

\* ---- resolution

NameOf(m) == QualifiedName(m.repositoryName, m.name)

Requested(env, requested_modules) ==
    {requested_modules[i] : i \in 1..Len(requested_modules)} \cap DOMAIN env

Successors(env, names) ==
    {d \in DOMAIN env : \E n \in names : InList(d, env[n].dependencies)}

\* The names reachable from the request in at most k dependency steps.
RECURSIVE Level(_, _, _)
Level(env, requested_modules, k) ==
    IF k = 0 THEN Requested(env, requested_modules)
    ELSE LET prev == Level(env, requested_modules, k - 1) IN prev \cup Successors(env, prev)

Reach(env, requested_modules) == Level(env, requested_modules, Cardinality(DOMAIN env))

Dist(env, requested_modules, name) ==
    CHOOSE k \in 0..Cardinality(DOMAIN env) :
        /\ name \in Level(env, requested_modules, k)
        /\ \A l \in 0..(k - 1) : name \notin Level(env, requested_modules, l)

\* Every requested name, and every dependency name of a module reachable from
\* the request, has an Environment entry.
Closed(env, requested_modules) ==
    /\ \A i \in 1..Len(requested_modules) : requested_modules[i] \in DOMAIN env
    /\ \A n \in Reach(env, requested_modules) :
          \A j \in 1..Len(env[n].dependencies) : env[n].dependencies[j] \in DOMAIN env

\* C2: the list resolve_dependencies returns holds each module once.
C2_ResultDuplicateFree ==
    ResolveReturned => \A i, j \in 1..Len(selected) : selected[i] = selected[j] => i = j

\* C3: when every name met has an Environment entry, resolve_dependencies
\* returns; the modules of its list are exactly those reachable from the
\* request, the requested modules come first in request order, and a module
\* found in a later round stands after every module found in an earlier one.
C3_TransitiveClosureInDiscoveryOrder ==
    (ResolveDone /\ Closed(environment, call.arg)) =>
        /\ call.error = NoError
        /\ {selected[i] : i \in 1..Len(selected)}
              = {environment[n] : n \in Reach(environment, call.arg)}
        /\ Len(selected) >= Len(call.arg)
        /\ \A i \in 1..Len(call.arg) : selected[i] = environment[call.arg[i]]
        /\ \A i, j \in 1..Len(selected) :
              i < j => Dist(environment, call.arg, NameOf(selected[i]))
                          <= Dist(environment, call.arg, NameOf(selected[j]))

\* Reached: one requested module, its dependency, and that one's dependency,
\* returned in this order.
C3_Witness ==
    /\ ResolveReturned
    /\ Len(call.arg) = 1
    /\ Len(selected) = 3
    /\ Dist(environment, call.arg, NameOf(selected[2])) = 1
    /\ Dist(environment, call.arg, NameOf(selected[3])) = 2

\* C4: once prepare_modules has run, the Environment holds under
\* 'repo:module' only modules of registered repositories whose prepare
\* returned true; and resolve_dependencies fails, returning no list, whenever
\* a requested name or a dependency name of a module met has no entry.
C4_GatedResolution ==
    /\ stage = "gated" =>
          \A k \in DOMAIN environment :
              /\ environment[k].available
              /\ k = NameOf(environment[k])
              /\ \E i \in 1..Len(repositories) :
                    /\ repositories[i].id = environment[k].repository
                    /\ InList(environment[k], repositories[i].modules)
    /\ (ResolveDone /\ ~Closed(environment, call.arg)) =>
          /\ call.error = KeyError
          /\ call.about \notin DOMAIN environment
          /\ selected = <<>>

\* Reached: resolve_dependencies failed on the dependency name of a module
\* that is loaded but whose prepare returned false.
C4_Witness ==
    /\ ResolveDone
    /\ call.error = KeyError
    /\ ~InList(call.about, call.arg)
    /\ \E i \in 1..Len(repositories) : \E j \in 1..Len(repositories[i].modules) :
          /\ NameOf(repositories[i].modules[j]) = call.about
          /\ ~repositories[i].modules[j].available

\* C9: resolve_dependencies, once in its while loop, leaves it: after
\* finitely many rounds a round finds no new module, or a lookup fails.
C9_ResolveTerminates == (pc = "loop") ~> (pc = "idle")

\* Reached: resolve_dependencies returned although two of the selected
\* modules depend on each other, or one on itself.
C9_Witness ==
    /\ ResolveReturned
    /\ \E i, j \in 1..Len(selected) :
          /\ InList(NameOf(selected[j]), selected[i].dependencies)
          /\ InList(NameOf(selected[i]), selected[j].dependencies)

====
